---- MODULE Spec2Model ----
(***************************************************************************)
(* HRMS Lite backend: employees and their daily attendance, kept in a      *)
(* relational store (SQLite) and served by two implementations:            *)
(*   - src/main.py   (FastAPI, raw SQL through sqlite3), impl = "sql"      *)
(*   - src/api/*.py  (Django REST framework, ORM),       impl = "orm"      *)
(* Requests are handled by independent workers.  A request's statements    *)
(* are steps: a handler's reads before its first write see the committed   *)
(* tables; its first writing statement opens a transaction and takes the   *)
(* database's single write lock; its commit publishes the pending tables   *)
(* and releases the lock.  A statement that needs the lock waits for it.   *)
(***************************************************************************)
EXTENDS Integers, Sequences, FiniteSets, TLC

(* ------------------------------ bounds -------------------------------- *)
MaxReqs == 4          \* requests accepted in one behaviour
MaxNow == 1           \* last instant of the server clock (one day each)
FirstDay == 9         \* calendar day of instant 0
MaxCriteria == 2      \* criteria supplied together in one listing request
MaxSeq == 2           \* attendance ids handed out before a behaviour of SpecIds

(* ------------------------- values of the program ---------------------- *)
Workers == {"w1", "w2"}
NoWorker == "none"

Present == "Present"
Absent == "Absent"
AttendanceStatus == {Present, Absent}

HTTP_200 == 200
HTTP_201 == 201
HTTP_204 == 204
HTTP_400 == 400
HTTP_404 == 404
HTTP_422 == 422
HTTP_500 == 500

(* Strings whose content matters are sequences of characters. *)
SP == " "
Digit == << "0", "1", "2", "3", "4", "5", "6", "7", "8", "9" >>
Ids == { <<"a">>, <<"b">> }
RawIds == Ids \cup { <<SP, "a">>, <<"a", SP>>, <<SP>>, <<>> }
RawNames == { <<"N">>, <<SP, "N">>, <<SP>> }
RawDepts == { <<"D">>, <<>> }
Emails == { "x@h", "y@h" }
Days == FirstDay .. (FirstDay + MaxNow)

\* the bodies of POST /api/employees: at most one field padded or blank
CreateBodies ==
  {b \in [employee_id : RawIds, full_name : RawNames, email : Emails,
          department : RawDepts] :
     Cardinality({k \in {"employee_id", "full_name", "department"} :
                    b[k] \notin Ids \cup {<<"N">>, <<"D">>}}) <= 1}

\* the bodies of PUT /api/employees/{employee_id}/
UpdateBodies ==
  {b \in CreateBodies : b.employee_id \in Ids /\ b.full_name = <<"N">>}

(* An Optional[...] value: <<>> is None, <<v>> is the value v. *)
None == << >>
Some(v) == << v >>

(* ------------------------------ helpers ------------------------------- *)
RECURSIVE LStrip(_)
LStrip(s) == IF s # <<>> /\ Head(s) = SP THEN LStrip(Tail(s)) ELSE s

RECURSIVE RStrip(_)
RStrip(s) ==
  IF s # <<>> /\ s[Len(s)] = SP THEN RStrip(SubSeq(s, 1, Len(s) - 1)) ELSE s

\* str.strip()
Strip(s) == RStrip(LStrip(s))

\* date.today() at clock instant t
Today(t) == FirstDay + t

\* date.isoformat(): zero-padded decimal digits, most significant first
IsoFormat(d) == << Digit[(d \div 10) + 1], Digit[(d % 10) + 1] >>

\* the date an ISO string of a request or of a table denotes
Parse(s) ==
  10 * ((CHOOSE i \in 1..10 : Digit[i] = s[1]) - 1)
    + ((CHOOSE i \in 1..10 : Digit[i] = s[2]) - 1)

\* the byte of a character
Ord(c) ==
  CASE c = SP -> 32
    [] c = "a" -> 97
    [] c = "b" -> 98
    [] OTHER -> 47 + (CHOOSE i \in 1..10 : Digit[i] = c)

\* s < t for two TEXT values (SQLite's BINARY collation)
RECURSIVE TextLess(_, _)
TextLess(s, t) ==
  IF t = <<>> THEN FALSE
  ELSE IF s = <<>> THEN TRUE
  ELSE IF Head(s) # Head(t) THEN Ord(Head(s)) < Ord(Head(t))
  ELSE TextLess(Tail(s), Tail(t))

TextLeq(s, t) == s = t \/ TextLess(s, t)

(* ------------------------------- state -------------------------------- *)
VARIABLES
  impl,        \* which implementation serves the requests
  employees,   \* committed rows of table employees
  attendance,  \* committed rows of table attendance
  seq,         \* committed AUTOINCREMENT high-water mark of attendance.id
  tx,          \* pending tables of the open write transaction, or NoTx
  lock,        \* worker holding the database write lock, or NoWorker
  now,         \* server clock
  wk,          \* per worker: position in its handler, request, last answer
  reqs,        \* requests accepted so far
  peer         \* the other implementation's database, when both are compared

vars == << impl, employees, attendance, seq, tx, lock, now, wk, reqs, peer >>

NoTx == [open |-> FALSE]
NoBody == << >>
NoPeer == [phase |-> "off"]

Idle == [pc |-> "idle", op |-> "none", eid |-> <<>>, name |-> <<>>,
         email |-> "", dept |-> <<>>, date |-> <<>>, status |-> "",
         ts |-> 0, path |-> "", flt |-> None, resp |-> 0, rid |-> 0,
         body |-> NoBody, target |-> <<>>]

\* a row of table employees
EmployeeRow(r) ==
  [employee_id |-> r.eid, full_name |-> r.name, email |-> r.email,
   department |-> r.dept, created_at |-> r.ts]

\* a row of table attendance
AttendanceRow(id, r) ==
  [id |-> id, employee_id |-> r.eid, date |-> r.date, status |-> r.status,
   created_at |-> r.ts]

Init ==
  /\ impl \in {"sql", "orm"}
  /\ employees = {}
  /\ attendance = {}
  /\ seq = 0
  /\ tx = NoTx
  /\ lock = NoWorker
  /\ now = 0
  /\ wk = [w \in Workers |-> Idle]
  /\ reqs = 0
  /\ peer = NoPeer

(* ----------------------- the persistence gateway ---------------------- *)
\* the tables a connection writes to: BEGIN before its first write
Begin(w) ==
  IF lock = w THEN tx
  ELSE [open |-> TRUE, employees |-> employees, attendance |-> attendance,
        seq |-> seq]

CanWrite(w) == lock \in {NoWorker, w}

\* PRIMARY KEY (employee_id) and UNIQUE (email) of table employees
EmployeeConflict(rows, r) ==
  \E e \in rows : e.employee_id = r.employee_id \/ e.email = r.email

\* (mutant) table attendance declared without UNIQUE(employee_id, date)
AttendanceConflict_missing(rows, eid, d) == FALSE

\* UNIQUE(employee_id, date) of table attendance
AttendanceConflict(rows, eid, d) ==
  \E a \in rows : a.employee_id = eid /\ a.date = d

\* what a worker keeps of a request once it has answered it
Answer(r, code, body) ==
  [Idle EXCEPT !.op = r.op, !.eid = r.eid, !.date = r.date,
               !.status = r.status, !.path = r.path, !.flt = r.flt,
               !.resp = code, !.rid = r.rid, !.body = body]

\* get_db: conn.commit() after the handler returned
Commit(w, code) ==
  /\ lock = w
  /\ employees' = tx.employees
  /\ attendance' = tx.attendance
  /\ seq' = tx.seq
  /\ tx' = NoTx
  /\ lock' = NoWorker
  /\ wk' = [wk EXCEPT ![w] = Answer(wk[w], code, NoBody)]

\* get_db: the handler raised; conn.rollback()
Rollback(w, r, code) ==
  /\ tx' = NoTx
  /\ lock' = NoWorker
  /\ wk' = [wk EXCEPT ![w] = Answer(r, code, NoBody)]
  /\ UNCHANGED << employees, attendance, seq >>

\* a handler that ends having written nothing
Respond(w, r, code, body) ==
  /\ wk' = [wk EXCEPT ![w] = Answer(r, code, body)]
  /\ UNCHANGED << employees, attendance, seq, tx, lock >>

\* a request goes to the first worker that is free
Free(w) ==
  /\ wk[w].pc = "idle"
  /\ \A v \in Workers : (v # w /\ v = "w1") => wk[v].pc # "idle"

\* a request is accepted
Accept(w) == Free(w) /\ reqs < MaxReqs /\ reqs' = reqs + 1

(* ------------------------ src/main.py: employees ---------------------- *)
\* EmployeeCreate's validators; the two SELECTs; created_at = datetime.now()
create_employee(w, b) ==
  /\ impl = "sql" /\ Accept(w)
  /\ LET ok == /\ Strip(b.employee_id) # <<>> /\ Strip(b.full_name) # <<>>
               /\ Strip(b.department) # <<>>
         r == [Idle EXCEPT !.op = "create", !.eid = Strip(b.employee_id),
                           !.name = Strip(b.full_name), !.email = b.email,
                           !.dept = Strip(b.department), !.ts = now]
     IN IF ~ ok
          THEN Respond(w, [Idle EXCEPT !.op = "create"], HTTP_422, NoBody)
        ELSE IF \E e \in employees : e.employee_id = r.eid
          THEN Respond(w, r, HTTP_400, NoBody)
        ELSE IF \E e \in employees : e.email = r.email
          THEN Respond(w, r, HTTP_400, NoBody)
        ELSE /\ wk' = [wk EXCEPT ![w] = [r EXCEPT !.pc = "ce_insert"]]
             /\ UNCHANGED << employees, attendance, seq, tx, lock >>
  /\ UNCHANGED << impl, peer, now >>

\* INSERT INTO employees; sqlite3.IntegrityError becomes a 400
create_employee_insert(w) ==
  /\ wk[w].pc = "ce_insert" /\ CanWrite(w)
  /\ LET t == Begin(w) IN
       IF EmployeeConflict(t.employees, EmployeeRow(wk[w]))
         THEN Rollback(w, [wk[w] EXCEPT !.path = "integrity"], HTTP_400)
         ELSE /\ tx' = [t EXCEPT !.employees = @ \cup {EmployeeRow(wk[w])}]
              /\ lock' = w
              /\ wk' = [wk EXCEPT ![w].pc = "ce_commit"]
              /\ UNCHANGED << employees, attendance, seq >>
  /\ UNCHANGED << impl, peer, now, reqs >>

\* return EmployeeResponse(...); get_db commits
create_employee_commit(w) ==
  /\ wk[w].pc = "ce_commit"
  /\ Commit(w, HTTP_201)
  /\ UNCHANGED << impl, peer, now, reqs >>

\* DELETE /api/employees/{employee_id}: the path parameter is used as sent;
\* SELECT employee_id FROM employees WHERE employee_id = ?
delete_employee(w, rid) ==
  /\ impl = "sql" /\ Accept(w)
  /\ LET r == [Idle EXCEPT !.op = "delete", !.eid = rid] IN
       IF ~ \E e \in employees : e.employee_id = rid
         THEN Respond(w, r, HTTP_404, NoBody)
         ELSE /\ wk' = [wk EXCEPT ![w] = [r EXCEPT !.pc = "de_attendance"]]
              /\ UNCHANGED << employees, attendance, seq, tx, lock >>
  /\ UNCHANGED << impl, peer, now >>

\* (mutant) the attendance rows are left to a cascade that never runs
delete_employee_attendance_skip(w) ==
  /\ wk[w].pc = "de_attendance" /\ CanWrite(w)
  /\ tx' = Begin(w)
  /\ lock' = w
  /\ wk' = [wk EXCEPT ![w].pc = "de_employee"]
  /\ UNCHANGED << impl, peer, employees, attendance, seq, now, reqs >>

\* DELETE FROM attendance WHERE employee_id = ?
delete_employee_attendance(w) ==
  /\ wk[w].pc = "de_attendance" /\ CanWrite(w)
  /\ LET t == Begin(w) IN
       tx' = [t EXCEPT !.attendance =
                {a \in @ : a.employee_id # wk[w].eid}]
  /\ lock' = w
  /\ wk' = [wk EXCEPT ![w].pc = "de_employee"]
  /\ UNCHANGED << impl, peer, employees, attendance, seq, now, reqs >>

\* DELETE FROM employees WHERE employee_id = ?
delete_employee_employee(w) ==
  /\ wk[w].pc = "de_employee" /\ lock = w
  /\ tx' = [tx EXCEPT !.employees = {e \in @ : e.employee_id # wk[w].eid}]
  /\ wk' = [wk EXCEPT ![w].pc = "de_commit"]
  /\ UNCHANGED << impl, peer, employees, attendance, seq, lock, now, reqs >>

\* return None; get_db commits
delete_employee_commit(w) ==
  /\ wk[w].pc = "de_commit"
  /\ Commit(w, HTTP_204)
  /\ UNCHANGED << impl, peer, now, reqs >>

(* ------------------------ src/main.py: attendance --------------------- *)
\* (mutant) the comparison is off by one day
validate_date_lax(d, t) == ~ (d > Today(t) + 1)

\* AttendanceCreate.validate_date / AttendanceSerializer.validate_date
validate_date(d, t) == ~ (d > Today(t))

\* AttendanceCreate (employee_id is used as sent); SELECT employee_id FROM
\* employees WHERE employee_id = ?; created_at = datetime.now()
mark_attendance(w, rid, d, st) ==
  /\ impl = "sql" /\ Accept(w)
  /\ LET r == [Idle EXCEPT !.op = "mark", !.eid = rid, !.date = IsoFormat(d),
                           !.status = st, !.ts = now]
     IN IF ~ validate_date(d, now) THEN Respond(w, r, HTTP_422, NoBody)
        ELSE IF ~ \E e \in employees : e.employee_id = rid
          THEN Respond(w, r, HTTP_404, NoBody)
        ELSE /\ wk' = [wk EXCEPT ![w] = [r EXCEPT !.pc = "ma_insert"]]
             /\ UNCHANGED << employees, attendance, seq, tx, lock >>
  /\ UNCHANGED << impl, peer, now >>

\* (mutant) INSERT OR REPLACE: the row in the way is deleted and the new
\* row is given a fresh id
mark_attendance_insert_replace(w) ==
  /\ wk[w].pc = "ma_insert" /\ CanWrite(w)
  /\ LET t == Begin(w) IN
       /\ tx' = [t EXCEPT
             !.attendance =
               {a \in @ : ~ (a.employee_id = wk[w].eid /\ a.date = wk[w].date)}
                 \cup {AttendanceRow(t.seq + 1, wk[w])},
             !.seq = @ + 1]
       /\ wk' = [wk EXCEPT ![w].pc = "ma_commit", ![w].path = "insert",
                           ![w].rid = t.seq + 1]
  /\ lock' = w
  /\ UNCHANGED << impl, peer, employees, attendance, seq, now, reqs >>

\* (mutant) id INTEGER PRIMARY KEY without AUTOINCREMENT: the new id is one
\* more than the largest id stored
mark_attendance_insert_rowid(w) ==
  /\ wk[w].pc = "ma_insert" /\ CanWrite(w)
  /\ LET t == Begin(w)
         top == IF t.attendance = {} THEN 0
                ELSE CHOOSE i \in {a.id : a \in t.attendance} :
                       \A a \in t.attendance : a.id <= i
     IN IF AttendanceConflict(t.attendance, wk[w].eid, wk[w].date)
          THEN /\ tx' = t
               /\ wk' = [wk EXCEPT ![w].pc = "ma_update"]
          ELSE /\ tx' = [t EXCEPT
                    !.attendance = @ \cup {AttendanceRow(top + 1, wk[w])},
                    !.seq = top + 1]
               /\ wk' = [wk EXCEPT ![w].pc = "ma_commit", ![w].path = "insert",
                                   ![w].rid = top + 1]
  /\ lock' = w
  /\ UNCHANGED << impl, peer, employees, attendance, seq, now, reqs >>

\* INSERT INTO attendance: AUTOINCREMENT id, UNIQUE(employee_id, date);
\* the connection never enables foreign keys, so the reference is unchecked
mark_attendance_insert(w) ==
  /\ wk[w].pc = "ma_insert" /\ CanWrite(w)
  /\ LET t == Begin(w) IN
       IF AttendanceConflict(t.attendance, wk[w].eid, wk[w].date)
         THEN /\ tx' = t
              /\ wk' = [wk EXCEPT ![w].pc = "ma_update"]
         ELSE /\ tx' = [t EXCEPT
                   !.attendance = @ \cup {AttendanceRow(t.seq + 1, wk[w])},
                   !.seq = @ + 1]
              /\ wk' = [wk EXCEPT ![w].pc = "ma_commit", ![w].path = "insert",
                                  ![w].rid = t.seq + 1]
  /\ lock' = w
  /\ UNCHANGED << impl, peer, employees, attendance, seq, now, reqs >>

\* (mutant) the fallback inserts the row again instead of updating it
mark_attendance_update_reinsert(w) ==
  /\ wk[w].pc = "ma_update" /\ lock = w
  /\ tx' = [tx EXCEPT
        !.attendance = @ \cup {AttendanceRow(tx.seq + 1, wk[w])},
        !.seq = @ + 1]
  /\ wk' = [wk EXCEPT ![w].pc = "ma_commit", ![w].path = "update",
                      ![w].rid = tx.seq + 1]
  /\ UNCHANGED << impl, peer, employees, attendance, seq, lock, now, reqs >>

\* except sqlite3.IntegrityError: UPDATE attendance SET status, created_at;
\* SELECT id FROM attendance WHERE employee_id = ? AND date = ?
mark_attendance_update(w) ==
  /\ wk[w].pc = "ma_update" /\ lock = w
  /\ LET hit(a) == a.employee_id = wk[w].eid /\ a.date = wk[w].date
         upd == {IF hit(a)
                   THEN [a EXCEPT !.status = wk[w].status,
                                  !.created_at = wk[w].ts]
                   ELSE a : a \in tx.attendance}
         found == {a \in upd : hit(a)}
     IN IF found = {}
          THEN Rollback(w, wk[w], HTTP_500)
          ELSE /\ tx' = [tx EXCEPT !.attendance = upd]
               /\ wk' = [wk EXCEPT ![w].pc = "ma_commit", ![w].path = "update",
                                   ![w].rid = (CHOOSE a \in found : TRUE).id]
               /\ UNCHANGED << employees, attendance, seq, lock >>
  /\ UNCHANGED << impl, peer, now, reqs >>

\* return AttendanceResponse(...); get_db commits
mark_attendance_commit(w) ==
  /\ wk[w].pc = "ma_commit"
  /\ Commit(w, HTTP_201)
  /\ UNCHANGED << impl, peer, now, reqs >>

(* ------------------- src/api: employees (Django REST) ----------------- *)
\* EmployeeViewSet.create: EmployeeSerializer's validate_* methods and the
\* uniqueness validators of the model's primary key and unique email
orm_create_employee(w, b) ==
  /\ impl = "orm" /\ Accept(w)
  /\ LET ok == /\ Strip(b.employee_id) # <<>> /\ Strip(b.full_name) # <<>>
               /\ Strip(b.department) # <<>>
         r == [Idle EXCEPT !.op = "create", !.eid = Strip(b.employee_id),
                           !.name = Strip(b.full_name), !.email = b.email,
                           !.dept = Strip(b.department)]
     IN IF ~ ok
          THEN Respond(w, [Idle EXCEPT !.op = "create"], HTTP_400, NoBody)
        ELSE IF EmployeeConflict(employees, EmployeeRow(r))
          THEN Respond(w, r, HTTP_400, NoBody)
        ELSE /\ wk' = [wk EXCEPT ![w] = [r EXCEPT !.pc = "oe_insert"]]
             /\ UNCHANGED << employees, attendance, seq, tx, lock >>
  /\ UNCHANGED << impl, peer, now >>

\* serializer.save(): one INSERT in autocommit mode, created_at is
\* auto_now_add; an IntegrityError is not caught
orm_create_employee_insert(w) ==
  /\ wk[w].pc = "oe_insert" /\ lock = NoWorker
  /\ LET row == EmployeeRow([wk[w] EXCEPT !.ts = now]) IN
       IF EmployeeConflict(employees, row)
         THEN /\ wk' = [wk EXCEPT ![w] =
                   Answer([wk[w] EXCEPT !.path = "integrity"], HTTP_500,
                          NoBody)]
              /\ UNCHANGED employees
         ELSE /\ wk' = [wk EXCEPT ![w] = Answer(wk[w], HTTP_201, NoBody)]
              /\ employees' = employees \cup {row}
  /\ UNCHANGED << impl, peer, attendance, seq, tx, lock, now, reqs >>

\* EmployeeViewSet.destroy: get_object() by lookup_field employee_id
orm_destroy_employee(w, rid) ==
  /\ impl = "orm" /\ Accept(w)
  /\ LET r == [Idle EXCEPT !.op = "delete", !.eid = rid] IN
       IF ~ \E e \in employees : e.employee_id = rid
         THEN Respond(w, r, HTTP_404, NoBody)
         ELSE /\ wk' = [wk EXCEPT ![w] = [r EXCEPT !.pc = "od_delete"]]
              /\ UNCHANGED << employees, attendance, seq, tx, lock >>
  /\ UNCHANGED << impl, peer, now >>

\* instance.delete(): on_delete=CASCADE removes the attendance rows and the
\* employee in one transaction
orm_destroy_employee_delete(w) ==
  /\ wk[w].pc = "od_delete" /\ lock = NoWorker
  /\ attendance' = {a \in attendance : a.employee_id # wk[w].eid}
  /\ employees' = {e \in employees : e.employee_id # wk[w].eid}
  /\ wk' = [wk EXCEPT ![w] = Answer(wk[w], HTTP_204, NoBody)]
  /\ UNCHANGED << impl, peer, seq, tx, lock, now, reqs >>

\* EmployeeViewSet.update (ModelViewSet): get_object() by employee_id, then
\* EmployeeSerializer(instance, data).is_valid(); the unique validators
\* leave the instance itself out
orm_update_employee(w, rid, b) ==
  /\ impl = "orm" /\ Accept(w)
  /\ LET ok == /\ Strip(b.employee_id) # <<>> /\ Strip(b.full_name) # <<>>
               /\ Strip(b.department) # <<>>
         found == {e \in employees : e.employee_id = rid}
         r == [Idle EXCEPT !.op = "update", !.eid = Strip(b.employee_id),
                           !.name = Strip(b.full_name), !.email = b.email,
                           !.dept = Strip(b.department), !.target = rid]
     IN IF found = {}
          THEN Respond(w, [Idle EXCEPT !.op = "update"], HTTP_404, NoBody)
        ELSE IF ~ ok
          THEN Respond(w, [Idle EXCEPT !.op = "update"], HTTP_400, NoBody)
        ELSE IF EmployeeConflict(employees \ found, EmployeeRow(r))
          THEN Respond(w, r, HTTP_400, NoBody)
        ELSE /\ wk' = [wk EXCEPT ![w] =
                  [r EXCEPT !.pc = "ou_save",
                            !.ts = (CHOOSE e \in found : TRUE).created_at]]
             /\ UNCHANGED << employees, attendance, seq, tx, lock >>
  /\ UNCHANGED << impl, peer, now >>

\* serializer.save(): ModelSerializer.update sets the attributes, the
\* primary key among them, and instance.save() runs UPDATE ... WHERE
\* employee_id = <new key>, then INSERT when no row was updated
\* (created_at: auto_now_add); an IntegrityError is not caught
orm_update_employee_save(w) ==
  /\ wk[w].pc = "ou_save" /\ lock = NoWorker
  /\ LET hit == {e \in employees : e.employee_id = wk[w].eid}
         row == IF hit # {} THEN EmployeeRow(wk[w])
                ELSE EmployeeRow([wk[w] EXCEPT !.ts = now])
     IN IF \E e \in employees \ hit : e.email = row.email
          THEN /\ wk' = [wk EXCEPT ![w] =
                    Answer([wk[w] EXCEPT !.path = "integrity"], HTTP_500,
                           NoBody)]
               /\ UNCHANGED employees
          ELSE /\ wk' = [wk EXCEPT ![w] =
                    Answer([wk[w] EXCEPT !.path =
                              IF hit # {} THEN "update" ELSE "insert"],
                           HTTP_200, NoBody)]
               /\ employees' = (employees \ hit) \cup {row}
  /\ UNCHANGED << impl, peer, attendance, seq, tx, lock, now, reqs >>

(* ------------------- src/api: attendance (Django REST) ---------------- *)
\* AttendanceSerializer.validate_employee_id
validate_employee_id(rows, eid) == \E e \in rows : e.employee_id = eid

\* AttendanceViewSet.create: the serializer's field validators
orm_mark_attendance(w, rid, d, st) ==
  /\ impl = "orm" /\ Accept(w)
  /\ LET r == [Idle EXCEPT !.op = "mark", !.eid = rid, !.date = IsoFormat(d),
                           !.status = st, !.ts = now]
     IN IF ~ (validate_employee_id(employees, rid) /\ validate_date(d, now))
          THEN Respond(w, r, HTTP_400, NoBody)
          ELSE /\ wk' = [wk EXCEPT ![w] = [r EXCEPT !.pc = "om_get"]]
               /\ UNCHANGED << employees, attendance, seq, tx, lock >>
  /\ UNCHANGED << impl, peer, now >>

\* AttendanceSerializer.create: Employee.objects.get(employee_id=...);
\* Employee.DoesNotExist is not caught
orm_mark_attendance_get(w) ==
  /\ wk[w].pc = "om_get"
  /\ IF ~ \E e \in employees : e.employee_id = wk[w].eid
       THEN Respond(w, wk[w], HTTP_500, NoBody)
       ELSE /\ wk' = [wk EXCEPT ![w].pc = "om_upsert"]
            /\ UNCHANGED << employees, attendance, seq, tx, lock >>
  /\ UNCHANGED << impl, peer, now, reqs >>

\* Attendance.objects.update_or_create(employee, date, defaults={status}):
\* one transaction; an existing row gets the new status only, a new row gets
\* an AUTOINCREMENT id and created_at (auto_now_add); the foreign key to
\* employees is checked when the transaction commits
orm_mark_attendance_upsert(w) ==
  /\ wk[w].pc = "om_upsert" /\ lock = NoWorker
  /\ LET hit(a) == a.employee_id = wk[w].eid /\ a.date = wk[w].date
         old == {a \in attendance : hit(a)}
         new == AttendanceRow(seq + 1, [wk[w] EXCEPT !.ts = now])
     IN IF ~ \E e \in employees : e.employee_id = wk[w].eid
          THEN /\ wk' = [wk EXCEPT ![w] = Answer(wk[w], HTTP_500, NoBody)]
               /\ UNCHANGED << attendance, seq >>
        ELSE IF old # {}
          THEN /\ attendance' = {IF hit(a)
                                   THEN [a EXCEPT !.status = wk[w].status]
                                   ELSE a : a \in attendance}
               /\ wk' = [wk EXCEPT ![w] =
                    Answer([wk[w] EXCEPT !.path = "update",
                                         !.rid = (CHOOSE a \in old : TRUE).id],
                           HTTP_201, NoBody)]
               /\ UNCHANGED seq
        ELSE /\ attendance' = attendance \cup {new}
             /\ seq' = seq + 1
             /\ wk' = [wk EXCEPT ![w] =
                  Answer([wk[w] EXCEPT !.path = "insert", !.rid = seq + 1],
                         HTTP_201, NoBody)]
  /\ UNCHANGED << impl, peer, employees, tx, lock, now, reqs >>

(* ----------------------------- the listing ---------------------------- *)
OptIds == {None, Some(<<>>)} \cup {Some(i) : i \in Ids}
OptDays == {None} \cup {Some(d) : d \in Days}

\* the query parameters of GET /api/attendance
Filters ==
  {f \in [employee_id : OptIds, date : OptDays, on_date : OptDays,
          start_date : OptDays, end_date : OptDays] :
     Len(f.employee_id) + Len(f.date) + Len(f.on_date)
       + Len(f.start_date) + Len(f.end_date) <= MaxCriteria}

\* `if employee_id:` for an Optional[str]
TruthyStr(o) == o # None /\ o[1] # <<>>

\* the WHERE clause get_attendance / get_queryset builds from the parameters
Where(a, f) ==
  LET specific_date == IF f.on_date # None THEN f.on_date ELSE f.date IN
    /\ TruthyStr(f.employee_id) => a.employee_id = f.employee_id[1]
    /\ specific_date # None => a.date = IsoFormat(specific_date[1])
    /\ f.start_date # None => TextLeq(IsoFormat(f.start_date[1]), a.date)
    /\ f.end_date # None => TextLeq(a.date, IsoFormat(f.end_date[1]))

\* ORDER BY a.date DESC, a.employee_id
Before(r, q) ==
  \/ TextLess(q.date, r.date)
  \/ r.date = q.date /\ TextLess(r.employee_id, q.employee_id)

RECURSIVE OrderBy(_)
OrderBy(rows) ==
  IF rows = {} THEN << >>
  ELSE LET first == CHOOSE r \in rows : \A q \in rows \ {r} : ~ Before(q, r)
       IN << first >> \o OrderBy(rows \ {first})

\* an attendance row with the columns joined from its employee (outer = the
\* LEFT JOIN of main.py, ~outer = the INNER JOIN of select_related)
Joined(a, emps) ==
  LET es == {e \in emps : e.employee_id = a.employee_id} IN
    [id |-> a.id, employee_id |-> a.employee_id, date |-> a.date,
     status |-> a.status, created_at |-> a.created_at,
     employee_name |->
       IF es = {} THEN None ELSE Some((CHOOSE e \in es : TRUE).full_name),
     employee_department |->
       IF es = {} THEN None ELSE Some((CHOOSE e \in es : TRUE).department)]

\* the rows main.py's get_attendance returns
SelectAttendance(f) ==
  OrderBy({Joined(a, employees) : a \in {b \in attendance : Where(b, f)}})

\* Meta.ordering = ['-date', 'employee'] of Attendance: a relation in an
\* ordering stands for the ordering of the related model, and Employee's
\* Meta.ordering is ['-created_at']
OrmBefore(r, q) ==
  LET created(x) ==
        (CHOOSE e \in employees : e.employee_id = x.employee_id).created_at
  IN \/ TextLess(q.date, r.date)
     \/ r.date = q.date /\ created(r) > created(q)

RECURSIVE Orderings(_)
Orderings(rows) ==
  IF rows = {} THEN {<< >>}
  ELSE UNION {{<< r >> \o s : s \in Orderings(rows \ {r})} : r \in rows}

\* the orders in which the database may return the rows: rows the ORDER BY
\* does not tell apart come in any order
OrmOrderBy(rows) ==
  {s \in Orderings(rows) :
     \A i, j \in 1..Len(s) : i < j => ~ OrmBefore(s[j], s[i])}

\* the rows of AttendanceViewSet's queryset (select_related: INNER JOIN)
QuerysetAttendance(f) ==
  {Joined(a, employees) :
     a \in {b \in attendance :
              /\ Where(b, f)
              /\ \E e \in employees : e.employee_id = b.employee_id}}

\* GET /api/attendance (main.py)
get_attendance(w, f) ==
  /\ impl = "sql" /\ Accept(w)
  /\ Respond(w, [Idle EXCEPT !.op = "list", !.flt = f], HTTP_200,
             SelectAttendance(f))
  /\ UNCHANGED << impl, peer, now >>

\* AttendanceViewSet: list() over get_queryset()
orm_list_attendance(w, f) ==
  /\ impl = "orm" /\ Accept(w)
  /\ \E rows \in OrmOrderBy(QuerysetAttendance(f)) :
       Respond(w, [Idle EXCEPT !.op = "list", !.flt = f], HTTP_200, rows)
  /\ UNCHANGED << impl, peer, now >>

(* ---------------------------- the dashboard --------------------------- *)
\* (mutant) the count is not restricted to today's date
CountToday_alldates(st, t) ==
  Cardinality({a \in attendance : a.status = st})

\* SELECT COUNT(*) ... WHERE date = ? AND status = ?, today's isoformat bound
CountToday(st, t) ==
  Cardinality({a \in attendance :
                 a.date = IsoFormat(Today(t)) /\ a.status = st})

\* the four counts of get_dashboard_stats / DashboardViewSet.stats
DashboardStats(t) ==
  [total_employees |-> Cardinality(employees),
   total_attendance_records |-> Cardinality(attendance),
   present_today |-> CountToday(Present, t),
   absent_today |-> CountToday(Absent, t)]

\* GET /api/dashboard/stats (main.py)
get_dashboard_stats(w) ==
  /\ impl = "sql" /\ Accept(w)
  /\ Respond(w, [Idle EXCEPT !.op = "stats"], HTTP_200, DashboardStats(now))
  /\ UNCHANGED << impl, peer, now >>

\* DashboardViewSet.stats
orm_stats(w) ==
  /\ impl = "orm" /\ Accept(w)
  /\ Respond(w, [Idle EXCEPT !.op = "stats"], HTTP_200, DashboardStats(now))
  /\ UNCHANGED << impl, peer, now >>


(* ----------------------- the per-employee summary --------------------- *)
\* (mutant) the CASE expression does not look at the status
SumCase_anystatus(rows, st) ==
  IF rows = {} THEN None ELSE Some(Cardinality(rows))

\* SUM(CASE WHEN status = ? THEN 1 ELSE 0 END): NULL over no rows
SumCase(rows, st) ==
  IF rows = {} THEN None ELSE Some(Cardinality({a \in rows : a.status = st}))

\* summary[...] or 0
OrZero(o) == IF o = None THEN 0 ELSE o[1]

\* the response of get_employee_attendance_summary for a stored employee
SummarySql(e) ==
  LET rows == {a \in attendance : a.employee_id = e.employee_id} IN
    [employee_id |-> e.employee_id, employee_name |-> e.full_name,
     total_days |-> OrZero(Some(Cardinality(rows))),
     present_days |-> OrZero(SumCase(rows, Present)),
     absent_days |-> OrZero(SumCase(rows, Absent))]

\* the response of employee_summary: aggregate(Count('id', filter=Q(...)))
SummaryOrm(e) ==
  LET rows == {a \in attendance : a.employee_id = e.employee_id} IN
    [employee_id |-> e.employee_id, employee_name |-> e.full_name,
     total_days |-> OrZero(Some(Cardinality(rows))),
     present_days |->
       OrZero(Some(Cardinality({a \in rows : a.status = Present}))),
     absent_days |->
       OrZero(Some(Cardinality({a \in rows : a.status = Absent})))]

\* GET /api/attendance/employee/{employee_id}/summary (main.py)
get_employee_attendance_summary(w, rid) ==
  /\ impl = "sql" /\ Accept(w)
  /\ LET r == [Idle EXCEPT !.op = "summary", !.eid = rid]
         found == {e \in employees : e.employee_id = rid}
     IN IF found = {}
          THEN Respond(w, r, HTTP_404, NoBody)
          ELSE Respond(w, r, HTTP_200, SummarySql(CHOOSE e \in found : TRUE))
  /\ UNCHANGED << impl, peer, now >>

\* AttendanceViewSet.employee_summary
employee_summary(w, rid) ==
  /\ impl = "orm" /\ Accept(w)
  /\ LET r == [Idle EXCEPT !.op = "summary", !.eid = rid]
         found == {e \in employees : e.employee_id = rid}
     IN IF found = {}
          THEN Respond(w, r, HTTP_404, NoBody)
          ELSE Respond(w, r, HTTP_200, SummaryOrm(CHOOSE e \in found : TRUE))
  /\ UNCHANGED << impl, peer, now >>
(* -------------------------------- clock ------------------------------- *)
Tick ==
  /\ now < MaxNow
  /\ now' = now + 1
  /\ UNCHANGED << impl, peer, employees, attendance, seq, tx, lock, wk, reqs >>

(* --------------------------- specifications --------------------------- *)
\* the steps of the writing requests
Write(w) ==
  \/ \E b \in CreateBodies : create_employee(w, b)
  \/ create_employee_insert(w)
  \/ create_employee_commit(w)
  \/ \E rid \in Ids : delete_employee(w, rid)
  \/ delete_employee_attendance(w)
  \/ delete_employee_employee(w)
  \/ delete_employee_commit(w)
  \/ \E rid \in Ids, d \in Days, st \in AttendanceStatus :
       mark_attendance(w, rid, d, st)
  \/ mark_attendance_insert(w)
  \/ mark_attendance_update(w)
  \/ mark_attendance_commit(w)
  \/ \E b \in CreateBodies : orm_create_employee(w, b)
  \/ orm_create_employee_insert(w)
  \/ \E rid \in Ids : orm_destroy_employee(w, rid)
  \/ orm_destroy_employee_delete(w)
  \/ \E rid \in Ids, b \in UpdateBodies : orm_update_employee(w, rid, b)
  \/ orm_update_employee_save(w)
  \/ \E rid \in Ids, d \in Days, st \in AttendanceStatus :
       orm_mark_attendance(w, rid, d, st)
  \/ orm_mark_attendance_get(w)
  \/ orm_mark_attendance_upsert(w)

\* the reading requests
Read(w) ==
  \/ \E f \in Filters : get_attendance(w, f)
  \/ \E f \in Filters : orm_list_attendance(w, f)
  \/ get_dashboard_stats(w)
  \/ orm_stats(w)
  \/ \E rid \in Ids : get_employee_attendance_summary(w, rid)
  \/ \E rid \in Ids : employee_summary(w, rid)

Next == (\E w \in Workers : Write(w)) \/ Tick

Spec == Init /\ [][Next]_vars

(* The listing and the dashboard are functions of the tables and the
   clock.  SpecRead applies them to tables a run of the writing requests
   can leave behind: employees a and b or neither, created now or
   earlier, at most one attendance row for each employee and day up to
   today, ids distinct and not above the high-water mark; an attendance
   row without its employee only under main.py. *)
EmployeeTables ==
  { { [employee_id |-> i, full_name |-> <<"N">>,
       email |-> IF i = <<"a">> THEN "x@h" ELSE "y@h",
       department |-> <<"D">>, created_at |-> c[i]] : i \in present } :
    present \in SUBSET Ids, c \in [Ids -> 0..MaxNow] }

Slots == Ids \X Days

SlotId(s) ==
  (IF s[1] = <<"a">> THEN 0 ELSE Cardinality(Days)) + (s[2] - FirstDay) + 1

AttendanceTables ==
  { { [id |-> SlotId(s), employee_id |-> s[1], date |-> IsoFormat(s[2]),
       status |-> m[s], created_at |-> 0] : s \in {q \in Slots : m[q] # ""} } :
    m \in [Slots -> AttendanceStatus \cup {""}] }

InitRead ==
  /\ impl \in {"sql", "orm"}
  /\ now \in 0..MaxNow
  /\ employees \in EmployeeTables
  /\ attendance \in AttendanceTables
  /\ \A e \in employees : e.created_at <= now
  /\ \A a \in attendance : Parse(a.date) <= Today(now)
  /\ impl = "orm" =>
       \A a \in attendance : \E e \in employees : e.employee_id = a.employee_id
  /\ seq = 2 * Cardinality(Days)
  /\ tx = NoTx
  /\ lock = NoWorker
  /\ wk = [w \in Workers |-> Idle]
  /\ reqs = MaxReqs - 1
  /\ peer = NoPeer

NextRead == \E w \in Workers : Read(w)

SpecRead == InitRead /\ [][NextRead]_vars


(* The two implementations side by side: every request of one sequence is
   served first by main.py and then by the Django application, each on its
   own database; the database that is not being served is kept in peer. *)
Requests ==
  [op : {"create"}, b : CreateBodies]
    \cup [op : {"delete"}, rid : Ids]
    \cup [op : {"mark"}, rid : Ids, d : Days, st : AttendanceStatus]

AllIdle == \A w \in Workers : wk[w].pc = "idle"

InitPair ==
  /\ impl = "sql"
  /\ employees = {}
  /\ attendance = {}
  /\ seq = 0
  /\ tx = NoTx
  /\ lock = NoWorker
  /\ now = 0
  /\ wk = [w \in Workers |-> Idle]
  /\ reqs = 0
  /\ peer = [phase |-> "next", req |-> [op |-> "none"], n |-> 0, resp |-> 0,
             employees |-> {}, attendance |-> {}, seq |-> 0]

\* the next request of the sequence arrives
PairChoose(q) ==
  /\ peer.phase = "next" /\ AllIdle /\ reqs < MaxReqs
  /\ peer' = [peer EXCEPT !.phase = "sql", !.req = q, !.n = reqs]
  /\ UNCHANGED << impl, employees, attendance, seq, tx, lock, now, wk, reqs >>

\* the implementation being served takes the request
PairStart(w) ==
  /\ peer.phase \in {"sql", "orm"} /\ reqs = peer.n
  /\ \/ /\ peer.req.op = "create"
        /\ create_employee(w, peer.req.b) \/ orm_create_employee(w, peer.req.b)
     \/ /\ peer.req.op = "delete"
        /\ \/ delete_employee(w, peer.req.rid)
           \/ orm_destroy_employee(w, peer.req.rid)
     \/ /\ peer.req.op = "mark"
        /\ \/ mark_attendance(w, peer.req.rid, peer.req.d, peer.req.st)
           \/ orm_mark_attendance(w, peer.req.rid, peer.req.d, peer.req.st)

\* the later statements of the handler
PairStep(w) ==
  /\ peer.phase \in {"sql", "orm"}
  /\ \/ create_employee_insert(w) \/ create_employee_commit(w)
     \/ delete_employee_attendance(w) \/ delete_employee_employee(w)
     \/ delete_employee_commit(w)
     \/ mark_attendance_insert(w) \/ mark_attendance_update(w)
     \/ mark_attendance_commit(w)
     \/ orm_create_employee_insert(w) \/ orm_destroy_employee_delete(w)
     \/ orm_mark_attendance_get(w) \/ orm_mark_attendance_upsert(w)

\* main.py has answered: the same request goes to the Django application
PairSwitch ==
  /\ peer.phase = "sql" /\ reqs = peer.n + 1 /\ AllIdle
  /\ impl' = "orm"
  /\ employees' = peer.employees
  /\ attendance' = peer.attendance
  /\ seq' = peer.seq
  /\ reqs' = peer.n
  /\ peer' = [peer EXCEPT !.phase = "orm", !.resp = wk["w1"].resp,
                          !.employees = employees,
                          !.attendance = attendance, !.seq = seq]
  /\ UNCHANGED << tx, lock, now, wk >>

\* both have answered: back to main.py for the next request
PairDone ==
  /\ peer.phase = "orm" /\ reqs = peer.n + 1 /\ AllIdle
  /\ impl' = "sql"
  /\ employees' = peer.employees
  /\ attendance' = peer.attendance
  /\ seq' = peer.seq
  /\ peer' = [peer EXCEPT !.phase = "next", !.resp = wk["w1"].resp,
                          !.employees = employees,
                          !.attendance = attendance, !.seq = seq]
  /\ UNCHANGED << tx, lock, now, wk, reqs >>

\* the clock moves between two requests of the sequence
PairTick == peer.phase = "next" /\ Tick

NextPair ==
  \/ \E q \in Requests : PairChoose(q)
  \/ \E w \in Workers : PairStart(w)
  \/ \E w \in Workers : PairStep(w)
  \/ PairSwitch
  \/ PairDone
  \/ PairTick

SpecPair == InitPair /\ [][NextPair]_vars


(* The assignment of attendance ids after a longer history: SpecIds starts
   the writing requests from tables such a history leaves behind, with ids
   up to the high-water mark seq handed out and the rows of deleted
   employees gone. *)
IdTables(top, t) ==
  {rows \in SUBSET [id : 1..top, employee_id : Ids,
                    date : {IsoFormat(d) : d \in FirstDay..Today(t)},
                    status : {Present}, created_at : {0}] :
     \A a, b \in rows :
       (a.id = b.id \/ (a.employee_id = b.employee_id /\ a.date = b.date))
         => a = b}

InitIds ==
  /\ impl \in {"sql", "orm"}
  /\ now \in 0..MaxNow
  /\ employees \in EmployeeTables
  /\ \A e \in employees : e.created_at = 0
  /\ seq \in 0..MaxSeq
  /\ attendance \in IdTables(seq, now)
  /\ impl = "orm" =>
       \A a \in attendance : \E e \in employees : e.employee_id = a.employee_id
  /\ tx = NoTx
  /\ lock = NoWorker
  /\ wk = [w \in Workers |-> Idle]
  /\ reqs = MaxReqs - 2
  /\ peer = NoPeer

SpecIds == InitIds /\ [][Next]_vars

(* ------------------------------- claims ------------------------------- *)
EmployeeIds(rows) == {e.employee_id : e \in rows}

\* the attendance rows of one employee and date
RowsOf(rows, eid, d) == {a \in rows : a.employee_id = eid /\ a.date = d}

\* worker w has answered a mark-attendance request with 201
Marked(w) ==
  wk[w].pc = "idle" /\ wk[w].op = "mark" /\ wk[w].resp = HTTP_201

\* this step is worker w answering the request it was handling or is given
Answers(w, op) ==
  /\ wk'[w].pc = "idle" /\ wk'[w].op = op
  /\ wk[w].pc # "idle" \/ (Free(w) /\ reqs' = reqs + 1)

\* C1: in every reachable state, under either implementation, there is at
\* most one stored attendance record for each (employee_id, date) pair; the
\* same holds of the tables a transaction is about to commit.
C1_OneRecordPerEmployeeDate ==
  /\ \A a, b \in attendance :
       (a.employee_id = b.employee_id /\ a.date = b.date) => a = b
  /\ tx.open =>
       \A a, b \in tx.attendance :
         (a.employee_id = b.employee_id /\ a.date = b.date) => a = b

\* a second mark-attendance for a pair that had a record has been answered
C1_Witness ==
  \E w \in Workers :
    /\ Marked(w) /\ wk[w].path = "update"
    /\ Cardinality(RowsOf(attendance, wk[w].eid, wk[w].date)) = 1
    /\ Cardinality(attendance) >= 2

\* C2: once two workers have both answered (201) a mark-attendance request
\* for the same employee and date, whatever the interleaving of their
\* steps, exactly one record exists for that pair and its status is the
\* status one of the two requests sent.
C2_ConcurrentUpsertsLeaveOneRecord ==
  \A w, v \in Workers :
    (/\ w # v /\ Marked(w) /\ Marked(v)
     /\ wk[w].eid = wk[v].eid /\ wk[w].date = wk[v].date)
    => /\ Cardinality(RowsOf(attendance, wk[w].eid, wk[w].date)) = 1
       /\ \A a \in RowsOf(attendance, wk[w].eid, wk[w].date) :
            a.status \in {wk[w].status, wk[v].status}

\* two overlapping requests for one pair, sending different statuses, have
\* both been answered: one inserted the record, the other updated it
C2_Witness ==
  /\ reqs = 3
  /\ Marked("w1") /\ Marked("w2")
  /\ wk["w1"].eid = wk["w2"].eid /\ wk["w1"].date = wk["w2"].date
  /\ wk["w1"].status # wk["w2"].status
  /\ wk["w1"].path # wk["w2"].path
  /\ wk["w1"].rid = wk["w2"].rid

\* C3: when a record exists for (employee_id, date), a further successful
\* mark-attendance for the pair leaves the number of stored records
\* unchanged and rewrites that record in place: same id, the new status,
\* and the id the request returns is that id.
C3_UpdateInPlace ==
  [][\A w \in Workers :
       (/\ Answers(w, "mark") /\ wk'[w].resp = HTTP_201
        /\ RowsOf(attendance, wk'[w].eid, wk'[w].date) # {})
       => /\ Cardinality(attendance') = Cardinality(attendance)
          /\ \E a \in attendance, b \in attendance' :
               /\ a.employee_id = wk'[w].eid /\ a.date = wk'[w].date
               /\ b.employee_id = a.employee_id /\ b.date = a.date
               /\ b.id = a.id
               /\ b.status = wk'[w].status
               /\ wk'[w].rid = a.id
               /\ attendance' \ {b} = attendance \ {a}]_vars

\* a record was overwritten with the other status and its id returned
C3_Witness ==
  \E w \in Workers :
    /\ Marked(w) /\ wk[w].path = "update" /\ seq = 1 /\ wk[w].rid = 1
    /\ \E v \in Workers : v # w /\ wk[v].op = "mark" /\ wk[v].rid = 1
                          /\ wk[v].status # wk[w].status
    /\ \A a \in attendance : a.id = 1 /\ a.status = wk[w].status

\* C4: after every successful mark-attendance, whether it created the record
\* or updated it, the record's stored created_at is the time of that call:
\* an instant between the request's arrival and its answer.
C4_CreatedAtIsTimeOfLastCall ==
  [][\A w \in Workers :
       (Answers(w, "mark") /\ wk'[w].resp = HTTP_201)
       => \A a \in RowsOf(attendance', wk'[w].eid, wk'[w].date) :
            a.created_at \in wk[w].ts .. now]_vars

\* C5: delete-employee answers 204 or 404; with 204 the employee and all its
\* attendance rows are gone and every other row is as it was; an id that is
\* not stored is answered 404 at once and nothing changes; and in no step
\* does an employee disappear while rows of its attendance stay, or do
\* attendance rows disappear while their employee stays.
C5_DeleteCascadesAtomically ==
  [][/\ \A w \in Workers :
          Answers(w, "delete") =>
            /\ wk'[w].resp \in {HTTP_204, HTTP_404}
            /\ wk'[w].resp = HTTP_204 =>
                 /\ employees' =
                      {e \in employees : e.employee_id # wk'[w].eid}
                 /\ attendance' =
                      {a \in attendance : a.employee_id # wk'[w].eid}
            /\ wk'[w].resp = HTTP_404 =>
                 /\ wk'[w].eid \notin EmployeeIds(employees)
                 /\ UNCHANGED << employees, attendance >>
     /\ \A w \in Workers :
          (Free(w) /\ reqs' = reqs + 1 /\ wk'[w].op = "delete") =>
            (wk'[w].eid \in EmployeeIds(employees) <=> wk'[w].pc # "idle")
     /\ \A e \in EmployeeIds(employees) \ EmployeeIds(employees') :
          \A a \in attendance' : a.employee_id # e
     /\ \A a \in attendance :
          (\A b \in attendance' : b.id # a.id) =>
            a.employee_id \notin EmployeeIds(employees')]_vars

\* an employee was deleted together with its attendance, another one stays
C5_Witness ==
  \E w \in Workers :
    /\ wk[w].pc = "idle" /\ wk[w].op = "delete" /\ wk[w].resp = HTTP_204
    /\ wk[w].eid \notin EmployeeIds(employees)
    /\ seq >= 1 /\ attendance = {} /\ employees # {}

\* C6: in every reachable state every stored attendance record references an
\* employee that is stored, also when a mark-attendance interleaves with a
\* delete-employee for the same employee.
C6_AttendanceReferencesEmployee ==
  \A a \in attendance : a.employee_id \in EmployeeIds(employees)

\* C7: a create-employee with a well-formed body whose trimmed employee_id
\* or whose email is that of a stored employee is answered 400 and leaves
\* table employees unchanged, whether the duplicate is found by the
\* handler's checks or, for the loser of a race, by the INSERT; no two stored
\* employees ever share an employee_id or an email.
C7_DuplicateEmployeeRejected ==
  [][/\ \A w \in Workers, b \in CreateBodies :
          (/\ create_employee(w, b) \/ orm_create_employee(w, b)
           /\ Strip(b.employee_id) # <<>> /\ Strip(b.full_name) # <<>>
           /\ Strip(b.department) # <<>>
           /\ \E e \in employees :
                e.employee_id = Strip(b.employee_id) \/ e.email = b.email)
          => /\ wk'[w].pc = "idle" /\ wk'[w].resp = HTTP_400
             /\ employees' = employees
     /\ \A w \in Workers :
          (/\ wk[w].pc \in {"ce_insert", "oe_insert"} /\ wk'[w] # wk[w]
           /\ \E e \in employees :
                e.employee_id = wk[w].eid \/ e.email = wk[w].email)
          => /\ wk'[w].pc = "idle" /\ wk'[w].resp = HTTP_400
             /\ employees' = employees
     /\ \A e, f \in employees' :
          (e.employee_id = f.employee_id \/ e.email = f.email) => e = f]_vars

\* C8: a mark-attendance whose date is after the server's current date is
\* refused with a validation error (422 by main.py, 400 by the ORM) and
\* changes nothing; one whose date is today or earlier, for a stored
\* employee, passes and is then answered 201 unless its employee has gone
\* by then; and no stored record is ever dated after the current date.
C8_NoFutureAttendance ==
  [][/\ \A w \in Workers :
          (/\ Free(w) /\ reqs' = reqs + 1 /\ wk'[w].op = "mark"
           /\ Parse(wk'[w].date) > Today(now))
          => /\ wk'[w].pc = "idle"
             /\ wk'[w].resp = IF impl = "sql" THEN HTTP_422 ELSE HTTP_400
             /\ UNCHANGED << employees, attendance, seq, tx, lock >>
     /\ \A w \in Workers :
          (/\ Free(w) /\ reqs' = reqs + 1 /\ wk'[w].op = "mark"
           /\ Parse(wk'[w].date) <= Today(now)
           /\ wk'[w].eid \in EmployeeIds(employees))
          => wk'[w].pc # "idle"
     /\ \A w \in Workers :
          (Answers(w, "mark") /\ wk[w].pc # "idle")
          => \/ wk'[w].resp = HTTP_201
             \/ wk'[w].eid \notin EmployeeIds(employees)
     /\ \A a \in attendance' : Parse(a.date) <= Today(now')]_vars

\* a request for tomorrow was refused although its employee is stored, and
\* a request for today was answered 201
C8_Witness ==
  /\ \E w \in Workers :
       /\ wk[w].pc = "idle" /\ wk[w].op = "mark"
       /\ wk[w].resp \in {HTTP_422, HTTP_400}
       /\ Parse(wk[w].date) > Today(now)
       /\ wk[w].eid \in EmployeeIds(employees)
  /\ \E a \in attendance : Parse(a.date) = Today(now)

\* C9: the attendance listing returns exactly the stored records that meet
\* every criterion supplied with a value (employee_id equal, date equal to
\* on_date or else date, date >= start_date, date <= end_date), each once
\* and with its stored columns, ordered by date descending and then by
\* employee_id ascending.
C9_ListingExactAndOrdered ==
  [][\A w \in Workers :
       Answers(w, "list") =>
         LET f == wk'[w].flt
             out == wk'[w].body
             day == IF f.on_date # None THEN f.on_date ELSE f.date
             match ==
               {a \in attendance :
                  /\ f.employee_id \notin {None, Some(<<>>)} =>
                       a.employee_id = f.employee_id[1]
                  /\ day # None => Parse(a.date) = day[1]
                  /\ f.start_date # None => Parse(a.date) >= f.start_date[1]
                  /\ f.end_date # None => Parse(a.date) <= f.end_date[1]}
         IN /\ wk'[w].resp = HTTP_200
            /\ Len(out) = Cardinality(match)
            /\ {out[i].id : i \in 1..Len(out)} = {a.id : a \in match}
            /\ \A i \in 1..Len(out) :
                 \E a \in match :
                   /\ a.id = out[i].id /\ a.employee_id = out[i].employee_id
                   /\ a.date = out[i].date /\ a.status = out[i].status
                   /\ a.created_at = out[i].created_at
            /\ \A i, j \in 1..Len(out) :
                 i < j =>
                   \/ Parse(out[i].date) > Parse(out[j].date)
                   \/ /\ out[i].date = out[j].date
                      /\ TextLess(out[i].employee_id, out[j].employee_id)]_vars

\* C10: dashboard stats answers the number of stored employees, the number
\* of stored attendance records of all dates, and the numbers of records
\* dated today with status Present and with status Absent; the call changes
\* no table.
C10_DashboardStatsCounts ==
  [][\A w \in Workers :
       Answers(w, "stats") =>
         /\ wk'[w].resp = HTTP_200
         /\ wk'[w].body =
              [total_employees |-> Cardinality(employees),
               total_attendance_records |-> Cardinality(attendance),
               present_today |->
                 Cardinality({a \in attendance :
                                /\ Parse(a.date) = Today(now)
                                /\ a.status = Present}),
               absent_today |->
                 Cardinality({a \in attendance :
                                /\ Parse(a.date) = Today(now)
                                /\ a.status = Absent})]
         /\ UNCHANGED << employees, attendance, seq, tx, lock, now >>]_vars

\* stats were answered over records of today, both Present and Absent, and
\* records of another day
C10_Witness ==
  \E w \in Workers :
    /\ wk[w].pc = "idle" /\ wk[w].op = "stats"
    /\ wk[w].body.present_today >= 1 /\ wk[w].body.absent_today >= 1
    /\ wk[w].body.total_attendance_records
         > wk[w].body.present_today + wk[w].body.absent_today
    /\ wk[w].body.total_employees >= 1

\* C11: the per-employee summary answers 404 when the employee is not
\* stored; for a stored employee it answers total_days = the number of that
\* employee's records, present_days and absent_days = the numbers of them
\* with status Present and Absent, so that total_days = present_days +
\* absent_days, and all three are 0 when the employee has no records; the
\* call changes no table.
C11_SummaryCounts ==
  [][\A w \in Workers :
       Answers(w, "summary") =>
         LET rows == {a \in attendance : a.employee_id = wk'[w].eid}
             out == wk'[w].body
         IN /\ wk'[w].eid \notin EmployeeIds(employees) =>
                 wk'[w].resp = HTTP_404 /\ out = NoBody
            /\ wk'[w].eid \in EmployeeIds(employees) =>
                 /\ wk'[w].resp = HTTP_200
                 /\ out.employee_id = wk'[w].eid
                 /\ out.total_days = Cardinality(rows)
                 /\ out.present_days =
                      Cardinality({a \in rows : a.status = Present})
                 /\ out.absent_days =
                      Cardinality({a \in rows : a.status = Absent})
                 /\ out.total_days = out.present_days + out.absent_days
                 /\ rows = {} =>
                      /\ out.total_days = 0 /\ out.present_days = 0
                      /\ out.absent_days = 0
            /\ UNCHANGED << employees, attendance, seq, tx, lock, now >>]_vars

\* a summary was answered for an employee with a Present and an Absent
\* record while another employee has records too
C11_Witness ==
  \E w \in Workers :
    /\ wk[w].pc = "idle" /\ wk[w].op = "summary" /\ wk[w].resp = HTTP_200
    /\ wk[w].body.present_days = 1 /\ wk[w].body.absent_days = 1
    /\ Cardinality(attendance) > wk[w].body.total_days

\* the kind of an answer: success, or the kind of its error
KindSql(code) ==
  CASE code \in {HTTP_200, HTTP_201, HTTP_204} -> {"success"}
    [] code = HTTP_422 -> {"validation"}
    [] code = HTTP_404 -> {"not-found"}
    [] code = HTTP_400 -> {"conflict"}
    [] OTHER -> {"failure"}

\* the Django application answers 400 to a malformed body and to a
\* duplicate alike
KindOrm(code) ==
  CASE code \in {HTTP_200, HTTP_201, HTTP_204} -> {"success"}
    [] code = HTTP_404 -> {"not-found"}
    [] code = HTTP_400 -> {"validation", "conflict"}
    [] OTHER -> {"failure"}

Triples(rows) ==
  {<< a.employee_id, Parse(a.date), a.status >> : a \in rows}

Persons(rows) ==
  {<< e.employee_id, e.full_name, e.email, e.department >> : e \in rows}

\* C12: fed the same sequence of create-employee, delete-employee and
\* mark-attendance requests, main.py and the Django application give every
\* request the same outcome (success or the same kind of error) and hold,
\* after every request, the same employees and the same attendance records
\* as (employee_id, date, status) triples.
C12_ImplementationsEquivalent ==
  (peer.phase = "orm" /\ reqs = peer.n + 1 /\ AllIdle) =>
    /\ KindSql(peer.resp) \cap KindOrm(wk["w1"].resp) # {}
    /\ Persons(peer.employees) = Persons(employees)
    /\ Triples(peer.attendance) = Triples(attendance)

\* C13: no request changes a stored employee: in every step, an employee
\* whose employee_id is stored before and after the step has the same
\* employee_id, full_name, email, department and created_at after it.
C13_EmployeeNeverUpdated ==
  [][\A e \in employees :
       e.employee_id \in EmployeeIds(employees') => e \in employees']_vars

AttendanceIds(rows) == {a.id : a \in rows}

\* C14: every newly stored attendance record has an id greater than the
\* high-water mark of the ids handed out before and than every stored id;
\* the high-water mark never falls and no stored id is above it, so an id
\* is never handed out twice, also after the records of a deleted employee
\* are gone; a mark-attendance that takes the update path stores no new id.
C14_IdsMonotone ==
  [][/\ \A a \in attendance' :
          a.id \notin AttendanceIds(attendance) =>
            /\ a.id > seq
            /\ \A b \in attendance : a.id > b.id
     /\ seq' >= seq
     /\ \A a \in attendance' : a.id <= seq'
     /\ \A w \in Workers :
          (Answers(w, "mark") /\ wk'[w].path = "update") =>
            /\ seq' = seq
            /\ AttendanceIds(attendance') = AttendanceIds(attendance)
            /\ wk'[w].rid \in AttendanceIds(attendance)]_vars

\* a record was created after the records holding the earlier ids were
\* removed, and its id is above all of them
C14_Witness ==
  \E w \in Workers :
    /\ wk[w].pc = "idle" /\ wk[w].op = "mark" /\ wk[w].path = "insert"
    /\ wk[w].resp = HTTP_201 /\ wk[w].rid = MaxSeq + 1
    /\ AttendanceIds(attendance) = {MaxSeq + 1}

====
